---- MODULE Spec2Model ----
(***************************************************************************)
(* Model of the UFCPredict scrapers: fight_stat_scraper.py (cached,        *)
(* multithreaded fight crawl) and fighter_stat_scraper.py (sequential,     *)
(* uncached fighter crawl).                                                *)
(***************************************************************************)
EXTENDS Bags, FiniteSets, Integers, Sequences, TLC

(* ------------------------------ bounds --------------------------------- *)
MaxEvents == 2
MaxFights == 2
MaxFighters == 2
NumChars == 2
MaxThreads == 2
MaxSaveEvery == 2
MaxRuns == 2
MaxCells == 10
MaxPersons == 3
MaxRows == 2

(* --------------------------- program constants ------------------------- *)
Retries == 5

None == [none |-> TRUE]

\* an element with text t, and the text taken from an element
El(t) == [tag |-> "el", text |-> t]

Txt(t) == [text |-> t]

BASE == [scheme |-> "http", host |-> "ufcstats.com"]

labels == <<"KD", "SIG_STR", "SIG_STR_pct", "TOTAL_STR", "TD", "TD_pct", "SUB_ATT", "REV", "CTRL">>

chars == 1..NumChars

(* ------------------------------- URLs ---------------------------------- *)
\* A URL is scheme + host + path; a path is <<section, id>>.
Url(section, id) == [scheme |-> BASE.scheme, host |-> BASE.host, path |-> <<section, id>>]

EventsIndexUrl == Url("statistics/events/completed?page=all", 0)

LetterUrl(c) == Url("statistics/fighters?page=all&char", c)

EventUrl(e) == Url("event-details", e)

FightUrl(f) == Url("fight-details", f)

FighterUrl(p) == Url("fighter-details", p)

\* hrefs as they appear in anchors: four textual forms of a link.
HrefRoot(section, id) == [form |-> "root_rel", path |-> <<section, id>>]

HrefRel(section, id) == [form |-> "relative", path |-> <<section, id>>]

HrefAbs(section, id) == [form |-> "absolute", scheme |-> "http", host |-> "ufcstats.com", path |-> <<section, id>>]

HrefProto(section, id) == [form |-> "scheme_rel", host |-> "ufcstats.com", path |-> <<section, id>>]

normalize_url(href) ==
  IF href = None THEN None
  ELSE IF href.form = "scheme_rel" THEN [scheme |-> "http", host |-> href.host, path |-> href.path]
  ELSE IF href.form = "root_rel" THEN [scheme |-> BASE.scheme, host |-> BASE.host, path |-> href.path]
  ELSE IF href.form = "absolute" THEN [scheme |-> href.scheme, host |-> href.host, path |-> href.path]
  ELSE [scheme |-> BASE.scheme, host |-> BASE.host, path |-> href.path]

\* the test  "<needle>" in a["href"]
HrefContains(href, needle) == href.path[1] = needle

\* string order of URLs, as used by sorted()
SectionRank(s) ==
  CASE s = "event-details" -> 1
    [] s = "fight-details" -> 2
    [] s = "fighter-details" -> 3
    [] OTHER -> 4

UrlKey(u) == (IF u.scheme = "http" THEN 0 ELSE 1000) + SectionRank(u.path[1]) * 100 + u.path[2]

Range(s) == {s[k] : k \in 1..Len(s)}

\* the elements of bag B, each as often as it is held, in ascending string order
SortedSeq(B) ==
  LET Before(x) == BagCardinality([y \in {z \in BagToSet(B) : UrlKey(z) < UrlKey(x)} |-> B[y]])
  IN  [i \in 1..BagCardinality(B) |->
         CHOOSE x \in BagToSet(B) : Before(x) < i /\ i <= Before(x) + B[x]]

\* sorted(c) of a collection c held as a bag (c is evaluated once)
sorted(c) == CHOOSE s \in {SortedSeq(B) : B \in {c}} : TRUE

KeepLast(B, xs) == [y \in Range(xs) |-> 1]

AppendAll(B, xs) ==
  B (+) [y \in Range(xs) |-> Cardinality({i \in 1..Len(xs) : xs[i] = y})]

\* for x in xs: c.add(x)   on a set c, held as a bag with counts 1
AddAll(B, xs) ==
  [y \in BagToSet(B) \cup Range(xs) |-> IF BagIn(y, B) THEN B[y] ELSE 1]

(* ------------------------------ the site ------------------------------- *)
Events == 1..MaxEvents

Fights == 1..MaxFights

Fighters == 1..MaxFighters

\* the first two fights belong to event 1, the others are dealt out in turn
EventOf(f) == IF f <= 2 THEN 1 ELSE ((f - 1) % MaxEvents) + 1

\* fights whose anchors appear on event page e: its own card; page 2 also
\* carries the card of event 1 (same target on several pages)
ListedOn(e) == {f \in Fights : EventOf(f) = e \/ (e = 2 /\ EventOf(f) = 1)}

LetterOf(p) == ((p - 1) % NumChars) + 1

\* an anchor: its href and whether it sits where the strict selector looks
Anchor(href, strict) == [href |-> href, strict |-> strict]

\* completed-events index: every event linked twice, in two textual forms,
\* plus one link that is not an event link
IndexAnchors ==
  [j \in 1..(2 * MaxEvents + 1) |->
     IF j = 2 * MaxEvents + 1 THEN Anchor(HrefRoot("statistics/fighters", 0), FALSE)
     ELSE IF j % 2 = 1 THEN Anchor(HrefRoot("event-details", (j + 1) \div 2), FALSE)
     ELSE Anchor(HrefAbs("event-details", j \div 2), FALSE)]

\* event page e: each listed fight linked twice (relative and scheme-relative
\* forms); odd events keep the fight-table rows, even events lost them
EventAnchors(e) ==
  LET all == [j \in 1..(2 * MaxFights + 1) |->
                IF j = 2 * MaxFights + 1 THEN Anchor(HrefRoot("event-details", e), FALSE)
                ELSE IF j % 2 = 1 THEN Anchor(HrefRel("fight-details", (j + 1) \div 2), e % 2 = 1)
                ELSE Anchor(HrefProto("fight-details", j \div 2), e % 2 = 1)]
      keep(a) == a.href.path[1] # "fight-details" \/ a.href.path[2] \in ListedOn(e)
  IN  SelectSeq(all, keep)

\* letter page c: every fighter of that letter linked twice
LetterAnchors(c) ==
  LET all == [j \in 1..(2 * MaxFighters) |->
                IF j % 2 = 1 THEN Anchor(HrefRoot("fighter-details", (j + 1) \div 2), TRUE)
                ELSE Anchor(HrefAbs("fighter-details", j \div 2), TRUE)]
      keep(a) == LetterOf(a.href.path[2]) = c
  IN  SelectSeq(all, keep)

(* ----------------------------- fight pages ----------------------------- *)
Statuses == {"W", "L", "absent"}

Totals == {"missing", "notable", "table"}

EvLinks == {"class", "alt", "none"}

PageParams ==
  [npersons : 0..MaxPersons, red_status : Statuses, blue_status : Statuses,
   totals : Totals, nrows : 0..MaxRows, ncells : {0, 8, 9, MaxCells}, nps : 0..2,
   evlink : EvLinks]

\* the parsed document of fight page f built from the parameters p
MkPage(f, p) ==
  [event_link |-> IF p.evlink = "class" THEN HrefAbs("event-details", EventOf(f)) ELSE None,
   alt_event  |-> IF p.evlink = "alt" THEN HrefRoot("event-details", EventOf(f)) ELSE None,
   persons    |-> [k \in 1..p.npersons |->
                     [name   |-> El(<<"name", f, k>>),
                      status |-> LET st == IF k = 1 THEN p.red_status
                                           ELSE IF k = 2 THEN p.blue_status ELSE "absent"
                                 IN  IF st = "absent" THEN None ELSE El(st)]],
   method     |-> El(<<"method", f>>),
   totals_section |-> p.totals # "missing",
   totals_table   |-> IF p.totals = "table"
                      THEN [rows |-> [r \in 1..p.nrows |->
                                        [j \in 1..(p.ncells + 1) |->
                                           [q \in 1..(IF j = 1 THEN 2 ELSE p.nps) |-> El(<<j - 1, q>>)]]]]
                      ELSE None]

(* ----------------------------- parse_fight ----------------------------- *)
safe_text(t) == IF t # None THEN Txt(t.text) ELSE None

OrEmpty(t) == IF t = None THEN Txt("") ELSE t

Winner(red_status, blue_status) ==
  IF red_status = Txt("W") THEN "red" ELSE IF blue_status = Txt("W") THEN "blue" ELSE "none"

\* the event link of a fight page (class selector, then href scan)
EventUrlOf(soup) ==
  IF soup.event_link # None THEN normalize_url(soup.event_link)
  ELSE IF soup.alt_event # None THEN normalize_url(soup.alt_event)
  ELSE None

Returned(rec) == [tag |-> "record", rec |-> rec]

ReturnedNone == [tag |-> "none"]

Raised(exc) == [tag |-> "raise", exc |-> exc]

\* stats dict built by the loop over the cells after the first one
Stats(tds) ==
  [key \in {<<c, labels[i]>> : c \in {"red", "blue"}, i \in 1..Len(tds)} |->
     LET i  == CHOOSE i \in 1..Len(tds) : labels[i] = key[2]
         ps == tds[i]
     IN  IF key[1] = "red" THEN (IF Len(ps) > 0 THEN Txt(ps[1].text) ELSE None)
         ELSE (IF Len(ps) > 1 THEN Txt(ps[2].text) ELSE None)]

\* parse_fight from the parsed fight page on (the fetches are done by the
\* caller): the outcome is a record, None, or a raised exception
Extract(fight_url, soup, event_url, date) ==
  IF Len(soup.persons) # 2 THEN ReturnedNone
  ELSE
    LET red_status  == OrEmpty(safe_text(soup.persons[1].status))
        blue_status == OrEmpty(safe_text(soup.persons[2].status))
    IN
    IF ~soup.totals_section THEN ReturnedNone
    ELSE IF soup.totals_table = None THEN Raised("AttributeError")
    ELSE LET rows == soup.totals_table.rows IN
      IF Len(rows) = 1
      THEN LET tds == Tail(rows[1]) IN
           IF Len(tds) > Len(labels) THEN Raised("IndexError")
           ELSE Returned([fight_url |-> fight_url, event_url |-> event_url, date |-> date,
                          winner |-> Winner(red_status, blue_status),
                          red_name |-> safe_text(soup.persons[1].name),
                          blue_name |-> safe_text(soup.persons[2].name),
                          method |-> Txt(soup.method.text),
                          stats |-> Stats(tds)])
      ELSE ReturnedNone

(* --------------------------- parse_fighter ----------------------------- *)
\* a fighter page has no structural gate: any loaded page gives a record
ParseFighter(url, soup) ==
  [fighter_url |-> url, name |-> Txt(soup.name.text), record |-> Txt(soup.record.text)]

(* ------------------------------- state --------------------------------- *)
VARIABLES
  kind,        \* which scraper runs: "fights" or "fighters"
  save_every,  \* snapshot interval
  threads,     \* worker-pool size (fights)
  site,        \* shape of every fight page served by the site
  run,         \* number of the current run of the script
  cache,       \* cache_html: path -> file content, None when absent
  fetched,     \* history: url -> content last returned by a successful fetch
  log,         \* [ERROR] lines printed in this run
  pc,          \* position of the main thread
  req,         \* the main thread's download loop: None or [url, att]
  idx,         \* loop position of the main thread
  events,      \* result of get_all_event_links
  found,       \* fight_links / fighter_links while being collected
  links,       \* the sorted leaf-URL list
  fut,         \* futures, in submission order; a running one holds a pool thread
  data,        \* the result list
  completed,   \* iterations of the result loop finished so far
  partials,    \* partial CSV files written by this run: number in the name -> rows
  final,       \* final CSV file written by this run: rows, None when not yet
  page,        \* a fight page handed to parse_fight on its own
  result       \* what parse_fight made of it

config == <<kind, save_every, threads, site>>

parsev == <<page, result>>

vars == <<kind, save_every, threads, site, run, cache, fetched, log, pc, req, idx,
          events, found, links, fut, data, completed, partials, final, page, result>>

Shapes == {"good", "bad", "raise"}

ShapeParam(shape, f) ==
  [npersons |-> IF shape = "bad" THEN 1 ELSE 2,
   red_status |-> IF f % 2 = 1 THEN "W" ELSE "L",
   blue_status |-> IF f % 2 = 1 THEN "L" ELSE "W",
   totals |-> IF shape = "raise" THEN "notable" ELSE "table",
   nrows |-> 1, ncells |-> 9, nps |-> 2, evlink |-> "class"]

AllUrls ==
  {EventsIndexUrl} \cup {EventUrl(e) : e \in Events} \cup {FightUrl(f) : f \in Fights}
  \cup {LetterUrl(c) : c \in chars} \cup {FighterUrl(p) : p \in Fighters}

CACHE_DIR == "cache_html"

cache_path(url) == <<CACHE_DIR, url, ".html">>

\* what requests.get(url) answers: an exception or a response with a status
Answers == {[exc |-> TRUE, status_code |-> 0], [exc |-> FALSE, status_code |-> 200],
            [exc |-> FALSE, status_code |-> 404]}

\* r.text of a 200 response: the page of the url as the site has it in this run
Text(url) == [url |-> url, rev |-> run]

\* content of a file that open(path, "w") has created or truncated and that
\* is not yet written
EmptyFile == [empty |-> TRUE]

\* the parsed document of an empty text: no element is found in it
EmptySoup ==
  [anchors |-> <<>>, date |-> None, event_link |-> None, alt_event |-> None,
   persons |-> <<>>, method |-> None, totals_section |-> FALSE, totals_table |-> None]

\* BeautifulSoup(html, "html.parser")
BeautifulSoup(html) ==
  IF html = EmptyFile THEN EmptySoup ELSE
  LET sec == html.url.path[1]
      id  == html.url.path[2]
  IN  CASE sec = "event-details" -> [anchors |-> EventAnchors(id), date |-> Txt(<<"date", id, html.rev>>)]
        [] sec = "fight-details" -> MkPage(id, ShapeParam(site[id], id))
        [] sec = "fighter-details" -> [name |-> El(<<"name", id>>), record |-> El(<<"record", id, html.rev>>)]
        [] sec = "statistics/fighters?page=all&char" -> [anchors |-> LetterAnchors(id)]
        [] OTHER -> [anchors |-> IndexAnchors]

(* --------------------------- link discovery ---------------------------- *)
\* normalised targets of the anchors whose href contains needle
Targets(anchors, needle, strictOnly) ==
  LET hit(a) == HrefContains(a.href, needle) /\ (strictOnly => a.strict)
  IN  [i \in 1..Len(SelectSeq(anchors, hit)) |-> normalize_url(SelectSeq(anchors, hit)[i].href)]

get_all_event_links(soup) ==
  IF soup = None THEN <<>>
  ELSE sorted(AddAll(EmptyBag, Targets(soup.anchors, "event-details", FALSE)))

get_event_fights(soup) ==
  IF soup = None THEN <<>>
  ELSE LET strict == AddAll(EmptyBag, Targets(soup.anchors, "fight-details", TRUE))
           fights == IF strict = EmptyBag
                     THEN AddAll(EmptyBag, Targets(soup.anchors, "fight-details", FALSE))
                     ELSE strict
       IN  sorted(fights)

SoupOf(html) == IF html = None THEN None ELSE BeautifulSoup(html)

Failed(url) == [msg |-> "failed to fetch", url |-> url]

\* if r.status_code == 200, no exception having been raised by requests.get
Ok(r) == ~r.exc /\ r.status_code = 200

SavedAlways(cch, url, r) ==
  [cch EXCEPT ![cache_path(url)] = IF Ok(r) THEN Text(url) ELSE EmptyFile]

\* the cache directory after a pass of fetch_cached's loop that was answered
\* r and has closed the file it may have written
Saved(cch, url, r) ==
  IF Ok(r) THEN [cch EXCEPT ![cache_path(url)] = Text(url)] ELSE cch

\* for _ in range(5): after att failed passes, is there another pass?
OneMoreThanRange(att) == att + 1 <= Retries

MoreAttempts(att) == att + 1 < Retries

(* ------------------------------ main thread ---------------------------- *)
Pending == [st |-> "pending"]

\* the url the main thread loads at its current position
MainUrl ==
  IF kind = "fights" THEN (IF pc = "tier1" THEN EventsIndexUrl ELSE events[idx])
  ELSE (IF pc = "tier1" THEN LetterUrl(idx) ELSE links[idx])

MainWants ==
  /\ req = None
  /\ \/ pc = "tier1"
     \/ kind = "fights" /\ pc = "tier2" /\ idx <= Len(events)
     \/ kind = "fighters" /\ pc = "leaf" /\ idx <= Len(links)

\* rows of the partial file written after the iteration with loop variable i
Snapshot(i, rows) ==
  IF (i + 1) % save_every = 0 THEN ((i + 1) :> rows) @@ partials ELSE partials

\* what the main thread does with the page (None: the fetch failed) it asked for
MainDeliver(html, lg) ==
  \E soup \in {SoupOf(html)} :
  /\ UNCHANGED <<config, run, parsev, final>>
  /\ IF kind = "fights" /\ pc = "tier1" THEN
       /\ events' = get_all_event_links(soup)
       /\ log' = IF soup = None THEN lg \cup {[msg |-> "could not load events page", url |-> MainUrl]} ELSE lg
       /\ pc' = "tier2"
       /\ idx' = 1
       /\ UNCHANGED <<found, links, fut, data, completed, partials>>
     ELSE IF kind = "fights" THEN
       /\ \E fights \in {get_event_fights(soup)} : found' = AddAll(found, fights)
       /\ idx' = idx + 1
       /\ log' = lg
       /\ UNCHANGED <<pc, events, links, fut, data, completed, partials>>
     ELSE IF pc = "tier1" THEN
       \E fighter_links \in {IF soup = None THEN found
                               ELSE AddAll(found, Targets(soup.anchors, "fighter-details", TRUE))} :
       /\ found' = fighter_links
       /\ log' = lg
       /\ IF idx < NumChars
          THEN idx' = idx + 1 /\ UNCHANGED <<pc, links>>
          ELSE idx' = 1 /\ pc' = "leaf" /\ links' = sorted(fighter_links)
       /\ UNCHANGED <<events, fut, data, completed, partials>>
     ELSE
       \E i \in {idx}, info \in {IF soup = None THEN None ELSE ParseFighter(links[idx], soup)} :
       \E rows \in {IF info # None THEN Append(data, info) ELSE data} :
       /\ data' = rows
       /\ partials' = Snapshot(i, rows)
       /\ completed' = completed + 1
       /\ idx' = idx + 1
       /\ log' = lg
       /\ UNCHANGED <<pc, events, found, links, fut>>

\* fetch_cached up to the cache lookup (fights); get_soup has no cache (fighters)
MainFetch ==
  /\ MainWants
  /\ IF kind = "fights" /\ cache[cache_path(MainUrl)] # None
     THEN /\ fetched' = [fetched EXCEPT ![MainUrl] = cache[cache_path(MainUrl)]]
          /\ MainDeliver(cache[cache_path(MainUrl)], log)
          /\ UNCHANGED <<req, cache>>
     ELSE /\ req' = [url |-> MainUrl, att |-> 0]
          /\ UNCHANGED <<config, run, parsev, cache, fetched, log, pc, idx, events, found,
                         links, fut, data, completed, partials, final>>

\* one pass of the download loop
MainAttempt(r) ==
  /\ req # None
  /\ cache' = IF kind = "fights" THEN Saved(cache, req.url, r) ELSE cache
  /\ IF Ok(r)
     THEN LET html == Text(req.url) IN
          /\ fetched' = [fetched EXCEPT ![req.url] = html]
          /\ req' = None
          /\ MainDeliver(html, log)
     ELSE IF MoreAttempts(req.att)
     THEN /\ req' = [req EXCEPT !.att = @ + 1]
          /\ UNCHANGED <<config, run, parsev, fetched, log, pc, idx, events, found,
                         links, fut, data, completed, partials, final>>
     ELSE /\ req' = None
          /\ MainDeliver(None, log \cup {Failed(req.url)})
          /\ UNCHANGED fetched

\* sorted(fight_links), the executor and one future per link
Submit ==
  /\ kind = "fights" /\ pc = "tier2" /\ idx > Len(events) /\ req = None
  /\ \E fight_links \in {sorted(found)} :
       /\ links' = fight_links
       /\ fut' = [k \in 1..Len(fight_links) |-> Pending]
  /\ pc' = "pool"
  /\ UNCHANGED <<config, run, parsev, cache, fetched, log, req, idx, events, found,
                 data, completed, partials, final>>

(* ------------------------------- workers ------------------------------- *)
Finish(k, res) == fut' = [fut EXCEPT ![k] = [st |-> "finished", res |-> res]]

\* futures whose parse_fight call is being run by a thread of the pool
Running == {k \in 1..Len(fut) : fut[k].st \in {"fight", "event", "writing"}}

AlwaysFree == TRUE

\* ThreadPoolExecutor(max_workers=threads): a thread of the pool is free
FreeThread == Cardinality(Running) < threads

\* parse_fight once the fight page is in hand: the event page is looked up in
\* the cache; on a miss the worker enters the download loop for it
WorkerGot(k, html, cch, ftch) ==
  \E soup \in {BeautifulSoup(html)} :
  \E event_url \in {EventUrlOf(soup)} :
      IF event_url = None
      THEN /\ Finish(k, Extract(links[k], soup, None, None))
           /\ cache' = cch
           /\ fetched' = ftch
      ELSE IF cch[cache_path(event_url)] # None
      THEN LET ev_html == cch[cache_path(event_url)] IN
           /\ Finish(k, Extract(links[k], soup, event_url, BeautifulSoup(ev_html).date))
           /\ cache' = cch
           /\ fetched' = [ftch EXCEPT ![event_url] = ev_html]
      ELSE /\ fut' = [fut EXCEPT ![k] = [st |-> "event", html |-> html]]
           /\ cache' = cch
           /\ fetched' = ftch

\* a free thread of the pool takes the oldest pending future and starts
\* parse_fight; the threads are interchangeable, so only their number counts
WorkerTake ==
  /\ pc = "pool"
  /\ FreeThread
  /\ \E k \in 1..Len(fut) :
       /\ fut[k].st = "pending"
       /\ \A j \in 1..(k - 1) : fut[j].st # "pending"
       /\ IF cache[cache_path(links[k])] # None
          THEN LET html == cache[cache_path(links[k])] IN
               WorkerGot(k, html, cache, [fetched EXCEPT ![links[k]] = html])
          ELSE /\ fut' = [fut EXCEPT ![k] = [st |-> "fight", html |-> None]]
               /\ UNCHANGED <<cache, fetched>>
  /\ UNCHANGED <<config, run, parsev, log, pc, req, idx, events, found, links,
                 data, completed, partials, final>>

\* a worker's download loop (fight page, or event page for the date), run to
\* its end: r is the answer to the last pass made, a 200 at any pass or the
\* failure of the fifth.  The passes of one loop touch nothing another thread
\* can see, so they are taken together.  No other thread looks at the cache
\* file of a fight page (every link is submitted once), so that file is
\* written in the same step; the cache file of an event page is shared by
\* the fights of its card: open(path, "w") leaves it empty until WorkerWrite.
WorkerDownload(k, r) ==
  /\ pc = "pool"
  /\ fut[k].st \in {"fight", "event"}
  /\ \E page_soup \in {SoupOf(fut[k].html)} :
     \E url \in {IF fut[k].st = "fight" THEN links[k] ELSE EventUrlOf(page_soup)} :
     IF Ok(r)
     THEN LET html == Text(url)
              cch == Saved(cache, url, r)
              ftch == [fetched EXCEPT ![url] = html]
          IN  /\ IF fut[k].st = "fight"
                 THEN WorkerGot(k, html, cch, ftch)
                 ELSE /\ fut' = [fut EXCEPT ![k] = [st |-> "writing", html |-> fut[k].html,
                                                     text |-> html]]
                      /\ cache' = [cache EXCEPT ![cache_path(url)] = EmptyFile]
                      /\ fetched' = fetched
              /\ log' = log
     ELSE /\ log' = log \cup {Failed(url)}
          /\ IF fut[k].st = "fight"
             THEN Finish(k, ReturnedNone)
             ELSE Finish(k, Extract(links[k], page_soup, url, None))
          /\ cache' = Saved(cache, url, r)
          /\ fetched' = fetched
  /\ UNCHANGED <<config, run, parsev, pc, req, idx, events, found, links,
                 data, completed, partials, final>>

\* f.write(html), the file is closed and fetch_cached returns html;
\* parse_fight goes on to its end with the date of the event page
WorkerWrite(k) ==
  /\ pc = "pool"
  /\ fut[k].st = "writing"
  /\ \E page_soup \in {BeautifulSoup(fut[k].html)}, html \in {fut[k].text} :
     \E url \in {EventUrlOf(page_soup)} :
       /\ cache' = [cache EXCEPT ![cache_path(url)] = html]
       /\ fetched' = [fetched EXCEPT ![url] = html]
       /\ Finish(k, Extract(links[k], page_soup, url, BeautifulSoup(html).date))
  /\ UNCHANGED <<config, run, parsev, log, pc, req, idx, events, found, links,
                 data, completed, partials, final>>

(* --------------------------- result collection ------------------------- *)
\* result = future.result(); if result: data.append(result)
AppendTwice(rows, res) ==
  IF res.tag = "record" THEN Append(Append(rows, res.rec), res.rec) ELSE rows

OnlyLast(rows, res) == IF res.tag = "record" THEN <<res.rec>> ELSE rows

AppendAlways(rows, res) == Append(rows, IF res.tag = "record" THEN res.rec ELSE None)

AppendResult(rows, res) == IF res.tag = "record" THEN Append(rows, res.rec) ELSE rows

Propagated(res) == IF res.tag = "raise" THEN "aborted" ELSE "pool"

\* where the main thread is after future.result(): an exception raised by
\* parse_fight is re-raised there, caught by except Exception, and the loop
\* goes on
AfterResult(res) == "pool"

\* one iteration of the as_completed loop, for any finished future
Collect(k) ==
  /\ pc = "pool"
  /\ fut[k].st = "finished"
  /\ \E res \in {fut[k].res}, i \in {completed} :
     \E rows \in {AppendResult(data, res)} :
         /\ pc' = AfterResult(res)
         /\ data' = rows
         /\ log' = IF res.tag = "raise"
                   THEN log \cup {[msg |-> "scrape failed", url |-> links[k]]} ELSE log
         /\ partials' = Snapshot(i, rows)
         /\ completed' = completed + 1
  /\ fut' = [fut EXCEPT ![k] = [st |-> "yielded"]]
  /\ UNCHANGED <<config, run, parsev, cache, fetched, req, idx, events, found,
                 links, final>>

LoopOverEarly ==
  IF kind = "fights" THEN pc = "pool" /\ \E k \in 1..Len(fut) : fut[k].st = "yielded"
  ELSE pc = "leaf" /\ idx > 1

\* the result loop has run out: every future was yielded / every link visited
LoopOver ==
  IF kind = "fights" THEN pc = "pool" /\ \A k \in 1..Len(fut) : fut[k].st = "yielded"
  ELSE pc = "leaf" /\ idx > Len(links)

FinalSave ==
  /\ LoopOver
  /\ final' = [rows |-> data]
  /\ pc' = "done"
  /\ UNCHANGED <<config, run, parsev, cache, fetched, log, req, idx, events, found,
                 links, fut, data, completed, partials>>

\* the script is started again; the cache directory stays
Restart ==
  /\ pc = "done"
  /\ run < MaxRuns
  /\ run' = run + 1
  /\ pc' = "tier1"
  /\ req' = None
  /\ idx' = 1
  /\ events' = <<>>
  /\ found' = EmptyBag
  /\ links' = <<>>
  /\ fut' = <<>>
  /\ data' = <<>>
  /\ completed' = 0
  /\ log' = {}
  /\ partials' = <<>>
  /\ final' = None
  /\ UNCHANGED <<config, parsev, cache, fetched>>

(* ---------------------------- specifications --------------------------- *)
Start ==
  /\ run = 1
  /\ cache = [f \in {cache_path(u) : u \in AllUrls} |-> None]
  /\ fetched = [u \in AllUrls |-> None]
  /\ log = {}
  /\ req = None
  /\ idx = 1
  /\ events = <<>>
  /\ found = EmptyBag
  /\ links = <<>>
  /\ fut = <<>>
  /\ data = <<>>
  /\ completed = 0
  /\ partials = <<>>
  /\ final = None

Init ==
  /\ kind \in {"fights", "fighters"}
  /\ save_every \in {1, MaxSaveEvery}
  /\ threads \in (IF kind = "fights" THEN {1, MaxThreads} ELSE {1})
  /\ site \in (IF kind = "fights" THEN [Fights -> Shapes] ELSE {[f \in Fights |-> "good"]})
  /\ pc = "tier1"
  /\ page = None
  /\ result = None
  /\ Start

Next ==
  \/ MainFetch
  \/ \E r \in Answers : MainAttempt(r)
  \/ Submit
  \/ WorkerTake
  \/ \E k \in 1..Len(fut), r \in Answers : WorkerDownload(k, r)
  \/ \E k \in 1..Len(fut) : WorkerWrite(k)
  \/ \E k \in 1..Len(fut) : Collect(k)
  \/ FinalSave

\* one run of either script, from an empty cache directory
Spec == Init /\ [][Next]_vars

\* one run in which the process keeps running while any thread has a step to
\* take: threads are scheduled and every request returns (timeout) or raises
FairSpec == Spec /\ WF_vars(Next)

\* the script run up to MaxRuns times over the same cache directory
NextRuns == Next \/ Restart

SpecRuns == Init /\ [][NextRuns]_vars

\* parse_fight alone, on every page shape
InitParse ==
  /\ kind = "fights"
  /\ save_every = 1
  /\ threads = 1
  /\ site = [f \in Fights |-> "good"]
  /\ pc = "parse"
  /\ page \in {MkPage(1, p) : p \in PageParams}
  /\ result = None
  /\ Start

ParseOnly ==
  /\ pc = "parse"
  /\ result = None
  /\ \E date \in {None, Txt(<<"date", 1, 1>>)} :
       result' = Extract(FightUrl(1), page, EventUrlOf(page),
                         IF EventUrlOf(page) = None THEN None ELSE date)
  /\ UNCHANGED <<config, run, cache, fetched, log, pc, req, idx, events, found, links,
                 fut, data, completed, partials, final, page>>

NextParse == ParseOnly

SpecParse == InitParse /\ [][NextParse]_vars

(* ================================ claims =============================== *)
LeafUrls == Range(links)

RowUrl(row) == IF kind = "fights" THEN row.fight_url ELSE row.fighter_url

RowUrls(rows) == {RowUrl(rows[j]) : j \in 1..Len(rows)}

\* the url the download loop of a running future is working on
WorkerUrl(k, v) == IF v.st = "fight" THEN links[k] ELSE EventUrlOf(BeautifulSoup(v.html))

\* in this step a fetch of u misses the cache and enters its download loop
StartsDownload(u) ==
  \/ req = None /\ req' # None /\ req'.url = u
  \/ \E k \in DOMAIN fut \cap DOMAIN fut' :
       /\ fut'[k].st \in {"fight", "event"}
       /\ fut[k].st # fut'[k].st
       /\ WorkerUrl(k, fut'[k]) = u

\* C1: once a fetch of a url has returned content, every later fetch of that
\* url returns the same content and does not go to the network (both crawls,
\* also across runs of the script).
C1_IdempotentCaching ==
  [][\A u \in AllUrls :
       fetched[u] # None => (fetched'[u] = fetched[u] /\ ~StartsDownload(u))]_vars

PanelStatus(soup, k) ==
  IF soup.persons[k].status = None THEN "" ELSE soup.persons[k].status.text

ClaimedWinner(soup) ==
  IF PanelStatus(soup, 1) = "W" /\ PanelStatus(soup, 2) # "W" THEN "red"
  ELSE IF PanelStatus(soup, 2) = "W" /\ PanelStatus(soup, 1) # "W" THEN "blue"
  ELSE "none"

\* C2: for a page that yields a record, winner is red when only the first
\* panel is marked W, blue when only the second is, and none when neither or
\* both are marked.
C2_WinnerDetermination ==
  (result # None /\ result.tag = "record") => result.rec.winner = ClaimedWinner(page)

\* every leaf but u was fetched and its page extracts to a record
OthersSucceed(u) ==
  \A v \in LeafUrls \ {u} :
    /\ Failed(v) \notin log
    /\ kind = "fights" => site[v.path[2]] = "good"

OneLeafFails(u) == u \in LeafUrls /\ Failed(u) \in log /\ OthersSucceed(u)

\* C3: when exactly one leaf url of the batch exhausts its retries and all
\* others fetch and extract, the run ends with exactly one record for each of
\* the other urls, whatever the pool size and completion order.
C3_FaultIsolation ==
  \A u \in AllUrls :
    (pc = "done" /\ OneLeafFails(u)) =>
      /\ Len(final.rows) = Len(links) - 1
      /\ RowUrls(final.rows) = LeafUrls \ {u}

C3_Witness ==
  /\ pc = "done" /\ kind = "fights" /\ threads = MaxThreads /\ Len(links) = MaxFights
  /\ \E u \in AllUrls : OneLeafFails(u)
  /\ Len(final.rows) = MaxFights - 1

InOrder(rows) ==
  \A j \in 1..Len(rows), k \in 1..Len(rows) :
    j < k => UrlKey(RowUrl(rows[j])) < UrlKey(RowUrl(rows[k]))

\* C4: the rows of every snapshot and of the final output are in one order
\* that does not depend on pool size or completion order.  A run that collects
\* the futures in submission order writes the rows in the order of the sorted
\* link list, so the order is the same in all runs exactly when every file has
\* its rows in that order.
C4_DeterministicOrder ==
  /\ final # None => InOrder(final.rows)
  /\ \A n \in DOMAIN partials : InOrder(partials[n])

\* C5: a snapshot is written in exactly the steps in which the number of
\* completed units reaches a positive multiple of save_every, and it holds
\* the records extracted so far (both crawls).
C5_PeriodicSnapshot ==
  [][IF completed' = completed + 1 /\ completed' % save_every = 0
     THEN \E n \in DOMAIN partials' \ DOMAIN partials :
            partials' = (n :> data') @@ partials
     ELSE partials' = partials]_vars

AllUnitsCompleted ==
  /\ completed = Len(links)
  /\ kind = "fights" => /\ \A k \in 1..Len(fut) : fut[k].st = "yielded"
                        /\ Len(fut) = Len(links)

\* C6: in every run the final snapshot is eventually written, it is written
\* only when every unit has completed or failed, and it holds all the
\* accumulated records.
C6_FinalSnapshot ==
  /\ [](final # None => (AllUnitsCompleted /\ final.rows = data))
  /\ <>(pc = "done" /\ final # None)

C6_Witness ==
  /\ pc = "done" /\ final # None /\ kind = "fights" /\ Len(links) = MaxFights
  /\ Len(final.rows) = 1
  /\ \E u \in LeafUrls : [msg |-> "scrape failed", url |-> u] \in log

\* one step of a download loop, seen from outside: before is the loop state
\* [url, att], after is the loop state after the step (None when it ended)
LoopStep(before, ended, att_after) ==
  /\ before.att < Retries
  /\ \/ ended /\ fetched'[before.url] = Text(before.url) /\ Failed(before.url) \notin log'
     \/ /\ ~ended /\ att_after = before.att + 1 /\ att_after < Retries
        /\ fetched' = fetched /\ log' = log
     \/ /\ ended /\ before.att + 1 = Retries
        /\ fetched' = fetched /\ Failed(before.url) \in log'

\* C7: a fetch of an uncached url makes at most 5 attempts; a failed attempt
\* uses up one; the fetch returns the content at the first successful attempt
\* and reports failure exactly when the fifth attempt has failed.
C7_RetryBudget ==
  [][(req # None /\ req' # req) =>
        LoopStep(req, req' = None, IF req' = None THEN 0 ELSE req'.att)]_vars

C7_Witness ==
  /\ \E u \in AllUrls : Failed(u) \in log
  /\ \E u \in AllUrls : fetched[u] # None
  /\ req # None /\ req.att = Retries - 1

Tier1Failed ==
  IF kind = "fights" THEN Failed(EventsIndexUrl) \in log
  ELSE \A c \in chars : Failed(LetterUrl(c)) \in log

\* C8: when the top-level index page(s) cannot be loaded, the crawl does not
\* complete normally with an empty result set and an empty final output.
C8_Tier1Fatal == ~(Tier1Failed /\ pc = "done" /\ final = [rows |-> <<>>])

\* C9: the leaf-url list holds no url twice, so no leaf url is submitted to
\* the pool more than once.
C9_Deduplication ==
  /\ \A j \in 1..Len(links), k \in 1..Len(links) : links[j] = links[k] => j = k
  /\ kind = "fights" /\ pc \in {"pool", "done"} => Len(fut) = Len(links)

C9_Witness ==
  /\ kind = "fights" /\ pc = "pool" /\ Len(links) = MaxFights
  /\ fetched[EventUrl(1)] # None /\ fetched[EventUrl(2)] # None

Gate(soup) ==
  /\ Len(soup.persons) = 2
  /\ soup.totals_section
  /\ soup.totals_table # None
  /\ Len(soup.totals_table.rows) = 1

\* C10: parse_fight returns None, without raising, when the page fails the
\* structural gate (two panels, Totals section with its table, one body row),
\* and returns a record when the page passes it.
C10_StructuralGate ==
  result # None => result.tag = (IF Gate(page) THEN "record" ELSE "none")

\* the value of the statistic with label number i for corner c as the page
\* has it in its single Totals row, None when the page has no such value
PageValue(soup, c, i) ==
  LET tds == Tail(soup.totals_table.rows[1])
      q   == IF c = "red" THEN 1 ELSE 2
  IN  IF i <= Len(tds) /\ q <= Len(tds[i]) THEN Txt(tds[i][q].text) ELSE None

\* C11: a page that passes the structural gate yields a record whatever the
\* number of statistic cells and of values per cell, and the record has each
\* of the 18 per-corner statistic fields, null where the page has no value.
C11_OptionalStats ==
  (result # None /\ Gate(page)) =>
     /\ result.tag = "record"
     /\ \A c \in {"red", "blue"}, i \in 1..Len(labels) :
          /\ <<c, labels[i]>> \in DOMAIN result.rec.stats
          /\ result.rec.stats[<<c, labels[i]>>] = PageValue(page, c, i)

\* C12: every fetch returns the complete downloaded content of its url, also
\* when several workers fetch the same uncached url at the same time (never
\* the empty or partial content of a cache file that another worker is still
\* writing), and the cache entry ends up holding the complete content.
C12_ConcurrentFirstFetch ==
  /\ \A u \in AllUrls : fetched[u] # None => fetched[u] = Text(u)
  /\ pc = "done" => \A u \in AllUrls : cache[cache_path(u)] \in {None, Text(u)}

\* C13: once a cache entry holds the content of its url, no later step (a
\* fetch, a concurrent fetch, a snapshot, a new run) removes the entry or
\* changes its content.
C13_CacheImmutable ==
  [][\A u \in AllUrls :
       cache[cache_path(u)] \notin {None, EmptyFile} =>
         cache'[cache_path(u)] = cache[cache_path(u)]]_vars

\* in this step a worker that has downloaded the page of event u creates the
\* cache file for it
OpensFile(u) ==
  \E k \in DOMAIN fut \cap DOMAIN fut' :
    /\ fut[k].st = "event" /\ fut'[k].st = "writing" /\ fut'[k].text = Text(u)
    /\ cache'[cache_path(u)] = EmptyFile

\* in this step worker k comes into possession of its fight page
GetsPage(k) ==
  /\ fut[k].st \in {"pending", "fight"}
  /\ fut'[k].st \notin {"pending", "fight"}
  /\ fetched'[links[k]] # None

\* in this step a fetch of u begins
FetchBegins(u) ==
  \/ MainWants /\ MainUrl = u
  \/ /\ pc = "pool" /\ pc' = "pool"
     /\ \E k \in 1..Len(fut) :
          GetsPage(k) /\ EventUrlOf(BeautifulSoup(fetched'[links[k]])) = u

\* C14: the cache entry of a url changes only in a step in which a fetch of
\* that url has received a successful answer; the step in which a fetch gives
\* up leaves the whole cache as it was; and a fetch of a url that has no
\* entry (so also a fetch after a failed one) goes to the network.
C14_CacheOnlyOnSuccess ==
  [][\A u \in AllUrls :
       /\ cache'[cache_path(u)] # cache[cache_path(u)] =>
            \/ cache'[cache_path(u)] = Text(u) /\ fetched'[u] = Text(u)
            \/ OpensFile(u)
       /\ Failed(u) \in log' \ log => cache' = cache
       /\ (cache[cache_path(u)] = None /\ FetchBegins(u)) => StartsDownload(u)]_vars

\* the page of an event could not be loaded during discovery and a worker
\* has gone to the network for it again
C14_Witness ==
  /\ kind = "fights" /\ pc = "pool"
  /\ \E k \in 1..Len(fut) :
       /\ fut[k].st = "event"
       /\ \A j \in 1..Len(fut) : j # k => fut[j].st = "pending"
       /\ Failed(WorkerUrl(k, fut[k])) \in log
       /\ cache[cache_path(WorkerUrl(k, fut[k]))] = None

ScrapeFailed(u) == [msg |-> "scrape failed", url |-> u]

\* the page of leaf v was loaded and its extraction gives a record
Extractable(v) ==
  /\ Failed(v) \notin log
  /\ kind = "fights" => site[v.path[2]] = "good"

\* C15: an exception raised by the extraction of one leaf url is caught in
\* the handling of that unit: the run goes on to write the final snapshot,
\* and the snapshot holds the record of every other leaf url whose page was
\* loaded and extracts (fight crawl and fighter crawl).
C15_ExceptionIsolation ==
  /\ [](pc = "done" =>
          /\ final # None
          /\ \A v \in LeafUrls : Extractable(v) => v \in RowUrls(final.rows))
  /\ ((\E u \in LeafUrls : ScrapeFailed(u) \in log) ~> (pc = "done" /\ final # None))

\* a run in which the extraction of one fight raised, written to its end
\* with the records of the other fights
C15_Witness ==
  /\ pc = "done" /\ kind = "fights" /\ Len(links) = MaxFights
  /\ \E u \in LeafUrls :
       /\ ScrapeFailed(u) \in log
       /\ RowUrls(final.rows) = LeafUrls \ {u}

\* link discovery has just ended: nothing but discovery has written to the log
DiscoveryDone ==
  \/ kind = "fights" /\ pc = "pool" /\ \A k \in 1..Len(fut) : fut[k].st = "pending"
  \/ kind = "fighters" /\ pc = "leaf" /\ idx = 1 /\ req = None

\* the listing pages whose fetch failed / did not fail during discovery
FailedSiblings ==
  IF kind = "fights" THEN {EventUrl(e) : e \in {x \in Events : Failed(EventUrl(x)) \in log}}
  ELSE {LetterUrl(c) : c \in {x \in chars : Failed(LetterUrl(x)) \in log}}

\* the leaf urls that the site links from the listing pages that did load
LeavesOfLoaded ==
  IF kind = "fights"
  THEN IF Failed(EventsIndexUrl) \in log THEN {}
       ELSE {FightUrl(f) : f \in {x \in Fights :
               \E e \in Events : EventUrl(e) \notin FailedSiblings /\ x \in ListedOn(e)}}
  ELSE {FighterUrl(p) : p \in {x \in Fighters : LetterUrl(LetterOf(x)) \notin FailedSiblings}}

\* C16: a listing page (event page, letter page) whose fetch fails adds
\* nothing and stops nothing: discovery ends with exactly the leaf urls
\* linked from the sibling pages that did load.
C16_SiblingIsolation == DiscoveryDone => LeafUrls = LeavesOfLoaded

\* discovery ended with one listing page failed and leaf urls from another
C16_Witness ==
  /\ DiscoveryDone
  /\ Cardinality(FailedSiblings) = 1
  /\ LeafUrls # {}

IsPrefix(s, t) == Len(s) <= Len(t) /\ \A j \in 1..Len(s) : s[j] = t[j]

\* rows holds at most one record per leaf url and no record of another url
OnePerLeaf(rows) ==
  /\ \A j \in 1..Len(rows), k \in 1..Len(rows) : RowUrl(rows[j]) = RowUrl(rows[k]) => j = k
  /\ RowUrls(rows) \subseteq LeafUrls

\* C17: during a run the result list only grows, so every snapshot holds all
\* the records of every earlier snapshot (and the final output those of every
\* snapshot); the list, every snapshot and the final output hold at most one
\* record per leaf url, each of a discovered leaf url.
C17_AppendOnly ==
  /\ [][IsPrefix(data, data')]_vars
  /\ [](/\ OnePerLeaf(data)
        /\ \A n \in DOMAIN partials :
             /\ OnePerLeaf(partials[n])
             /\ IsPrefix(partials[n], data)
             /\ \A m \in DOMAIN partials : n <= m => IsPrefix(partials[n], partials[m])
        /\ final # None => OnePerLeaf(final.rows) /\ final.rows = data)

\* two snapshots of different sizes and the final output, all written
C17_Witness ==
  /\ pc = "done" /\ Len(final.rows) = 2
  /\ \E n \in DOMAIN partials, m \in DOMAIN partials :
       Len(partials[n]) = 1 /\ Len(partials[m]) = 2

\* C18: in the fight crawl the number of leaf urls in work at one time never
\* exceeds the pool size, and a leaf url that a worker has taken stays in
\* work with that worker until its parse_fight call has ended (it is neither
\* put back nor dropped).
C18_BoundedConcurrency ==
  /\ [](Cardinality(Running) <= threads)
  /\ [][\A k \in DOMAIN fut \cap DOMAIN fut' :
          /\ k \in Running => fut'[k].st \in {"fight", "event", "writing", "finished"}
          /\ fut'[k].st \in {"fight", "event", "writing"} => fut[k].st # "finished"]_vars

\* the pool is full and a leaf url waits for a free worker
C18_Witness ==
  /\ kind = "fights" /\ pc = "pool"
  /\ Cardinality(Running) = threads
  /\ \E k \in 1..Len(fut) : fut[k].st = "pending"

\* in this step a worker thread moves on in its parse_fight call
WorkerStep ==
  \E k \in DOMAIN fut \cap DOMAIN fut' :
    fut'[k] # fut[k] /\ fut'[k].st \in {"fight", "event", "writing", "finished"}

\* in this step the main thread handles the result of future k
Yields(k) == fut[k].st = "finished" /\ fut'[k].st = "yielded"

\* C19: in the fight crawl a worker's step leaves the result list and the
\* output files alone; the list changes only in a step of the main thread's
\* result loop, by the one record of the one future handled in that step,
\* and a snapshot written in a step holds the list as that step leaves it.
C19_SingleWriter ==
  [][kind = "fights" =>
       /\ WorkerStep => /\ data' = data /\ partials' = partials
                        /\ final' = final /\ completed' = completed
       /\ data' # data =>
            \E k \in DOMAIN fut \cap DOMAIN fut' :
              /\ Yields(k) /\ fut[k].res.tag = "record"
              /\ data' = Append(data, fut[k].res.rec)
              /\ \A j \in DOMAIN fut \cap DOMAIN fut' : Yields(j) => j = k
       /\ partials' # partials =>
            \E n \in DOMAIN partials' \ DOMAIN partials :
              partials' = (n :> data') @@ partials]_vars

\* a worker is at work while the main thread has already appended a record
\* and written a snapshot
C19_Witness ==
  /\ kind = "fights" /\ pc = "pool"
  /\ Running # {}
  /\ Len(data) >= 1
  /\ DOMAIN partials # {}

====
